---- MODULE Spec2Model ----
(***************************************************************************)
(* A model of the LLM client of gen-ai-starter-template:                   *)
(*   src/src/llm/config.py  LLMConfig (validation, from_dict, merge_with,  *)
(*                          to_api_params)                                 *)
(*   src/src/llm/base.py    BaseLLMClient (__init__, _resolve_config)      *)
(*   src/src/llm/client.py  OpenAIClient (achat under the tenacity retry   *)
(*                          decorator, astream)                            *)
(*                                                                         *)
(* Conventions of the model.                                               *)
(*  - Python floats are integers in tenths: 0.7 is 7, 2.0 is 20, -2.0 is   *)
(*    -20.  max_tokens and seed are plain integers.                        *)
(*  - A value of an Optional field is None (the empty tuple) or            *)
(*    Some(x) (the one-element tuple <<x>>), in configs and in dicts       *)
(*    alike, so that None never meets a number in a comparison.            *)
(*  - A Python dict is a function from its keys (strings) to its values;   *)
(*    the empty dict is the empty function.                                *)
(***************************************************************************)
EXTENDS Integers, Sequences, FiniteSets, TLC

VARIABLES
    \* ---- LLMConfig operations applied to drawn inputs (SpecConfig) ----
    cbase,      \* the config a method is called on (self of merge_with)
    cdata,      \* the argument: [kind |-> "none" | "dict", d |-> dict]
    cop,        \* the operation applied: "input" before, then its name
    cres,       \* what the operation produced: [err, field, cfg, warned, is_self]
    cbase0,     \* cbase as it was before the operation
    cparams,    \* to_api_params of the produced config: [full, portable]
    cmutated,   \* whether the caller has mutated the produced config since
    cagain,     \* what was done with the produced config c next:
                \* [round_trip |-> from_dict(c.to_api_params()),
                \*  merge_again |-> c.merge_with(the same overrides)]
    \* ---- one OpenAIClient and the call in progress on it (Spec) ----
    default_config,  \* self._default_config
    op,              \* "none", "achat" or "astream"
    pc,              \* where the call is: "idle", "attempt", "awaiting",
                     \* "created", "opening", "streaming", "done", "failed"
    arg,             \* the call's config argument: [kind, d]
    script,          \* what the transport does on its 1st, 2nd, ... invocation
    attempt_number,  \* tenacity's attempt counter of the achat call
    invocations,     \* calls of chat.completions.create made by this call
    requests,        \* the keyword arguments of each of those calls
    waits,           \* the backoff sleeps tenacity made, in seconds
    transport_err,   \* the last error the transport raised, or "none"
    raised,          \* the error the caller received, or "none"
    cause,           \* its __cause__, or "none"
    api_response,        \* what the transport returned to achat, or NoResponse
    result,          \* the LLMResponse achat returned, or NoResponse
    delivered,       \* the delta contents the transport stream produced
    yielded,         \* the fragments astream yielded to its consumer
    \* ---- calls in progress at the same time on one client (SpecConc) ----
    tasks,      \* per task, the locals of its call: [op, pc, arg, messages,
                \* resolved, formatted, params, raised]
    wire,       \* what the transport received, in order: [task, messages, params]
    \* ---- one Message and what a holder of it does with it (SpecMessage) ----
    mkwargs,    \* the keyword arguments Message(...) is called with
    mop,        \* the last operation: "input", "construct", "setattr",
                \* "mutate_metadata", "format"
    mmsg,       \* the Message constructed, or NoMessage
    merr,       \* the error of the last operation, or "none"
    mpairs,     \* the wire pairs the message was formatted to, in order
    \* ---- a wait policy and the waits it gives, attempt by attempt (SpecWait) ----
    wpolicy,    \* the arguments of wait_exponential: [multiplier, min, max]
    wwaits      \* the waits after the 1st, 2nd, ... failed attempt, in seconds

cvars == <<cbase, cdata, cop, cres, cbase0, cparams, cmutated, cagain>>

callvars ==
    <<op, pc, arg, script, attempt_number, invocations, requests, waits,
      transport_err, raised, cause, api_response, result, delivered, yielded>>

clientvars == <<default_config, callvars>>

concvars == <<tasks, wire>>

msgvars == <<mkwargs, mop, mmsg, merr, mpairs>>

waitvars == <<wpolicy, wwaits>>

\* the variables of the specifications of single values
valuevars == <<msgvars, waitvars>>

vars == <<cvars, clientvars, concvars, valuevars>>

----------------------------------------------------------------------------
(* Values *)

None == <<>>
Some(x) == <<x>>
EmptyDict == <<>>
NoConfig == <<>>

\* dict.update / keyword precedence: the entries of d win over those of base
Update(base, d) == d @@ base

Restrict(d, keys) == [k \in (DOMAIN d) \cap keys |-> d[k]]

----------------------------------------------------------------------------
(* LLMConfig: fields and defaults (config.py 46-68) *)

STANDARD_FIELDS == {"temperature", "max_tokens", "top_p", "stream", "stop"}

ADVANCED_FIELDS ==
    {"seed", "frequency_penalty", "presence_penalty", "logit_bias", "user",
     "response_format"}

\* the two annotated class attributes are dataclass fields too
PrivateFields == {"_STANDARD_FIELDS", "_ADVANCED_FIELDS"}

PublicFields == STANDARD_FIELDS \cup ADVANCED_FIELDS

\* a test for private keys that finds none (to_api_params without its skip)
StartsWithUnderscoreNever(k) == FALSE

\* str.startswith('_'): of the keys the model draws, the private field names
StartsWithUnderscore(k) == k \in PrivateFields

FieldDefaults ==
    [temperature |-> 7, max_tokens |-> 1000, top_p |-> 10, stream |-> FALSE,
     stop |-> None, seed |-> None, frequency_penalty |-> None,
     presence_penalty |-> None, logit_bias |-> None, user |-> None,
     response_format |-> None,
     _STANDARD_FIELDS |-> STANDARD_FIELDS,
     _ADVANCED_FIELDS |-> ADVANCED_FIELDS]

\* fields(cls): every dataclass field name
Fields == DOMAIN FieldDefaults

----------------------------------------------------------------------------
(* LLMConfig.__post_init__ (config.py 70-104): the first bound that fails,  *)
(* in the order of the checks, or "none".                                   *)

TempLo == 0
TempHi == 20
TopPLo == 0
TopPHi == 10
MaxTokensMin == 1
PenaltyLo == -20
PenaltyHi == 20

InRange(lo, x, hi) == lo <= x /\ x <= hi

PenaltyOk(p) == p = None \/ InRange(PenaltyLo, p[1], PenaltyHi)

\* a validation that forgets the lower bounds
PostInitUpperOnly(c) ==
    IF c.temperature > TempHi THEN "temperature"
    ELSE IF c.top_p > TopPHi THEN "top_p"
    ELSE IF c.frequency_penalty # None /\ c.frequency_penalty[1] > PenaltyHi
        THEN "frequency_penalty"
    ELSE IF c.presence_penalty # None /\ c.presence_penalty[1] > PenaltyHi
        THEN "presence_penalty"
    ELSE "none"

PostInit(c) ==
    IF ~ InRange(TempLo, c.temperature, TempHi) THEN "temperature"
    ELSE IF ~ InRange(TopPLo, c.top_p, TopPHi) THEN "top_p"
    ELSE IF c.max_tokens < MaxTokensMin THEN "max_tokens"
    ELSE IF ~ PenaltyOk(c.frequency_penalty) THEN "frequency_penalty"
    ELSE IF ~ PenaltyOk(c.presence_penalty) THEN "presence_penalty"
    ELSE "none"

\* the result of an operation that returns a config or raises
Raised(kind, field, warned) ==
    [err |-> kind, field |-> field, cfg |-> NoConfig, warned |-> warned,
     is_self |-> FALSE]

Returned(c, warned, isSelf) ==
    [err |-> "none", field |-> "none", cfg |-> c, warned |-> warned,
     is_self |-> isSelf]

\* LLMConfig(**kwargs): the generated __init__ then __post_init__.
\* A keyword that is no field is a TypeError of the call itself.
NewLLMConfig(kwargs) ==
    IF ~ (DOMAIN kwargs \subseteq Fields)
    THEN Raised("TypeError", "none", {})
    ELSE LET c == Update(FieldDefaults, kwargs)
             bad == PostInit(c)
         IN  IF bad # "none" THEN Raised("ValueError", bad, {})
             ELSE Returned(c, {}, FALSE)

\* dataclasses.asdict(self): every field, private ones included
asdict(c) == c

----------------------------------------------------------------------------
(* LLMConfig.from_dict (config.py 106-127) *)

\* a from_dict that hands every key of the mapping to the constructor
from_dict_unfiltered(data) == NewLLMConfig(data)

\* a from_dict that passes every key of the mapping through unvalidated
from_dict_unvalidated(data) ==
    Returned(Update(FieldDefaults, Restrict(data, PublicFields)),
             DOMAIN data \ PublicFields, FALSE)

from_dict(data) ==
    LET valid_keys == {f \in Fields : ~ StartsWithUnderscore(f)}
        unknown_keys == DOMAIN data \ valid_keys
        filtered_data == Restrict(data, valid_keys)
        r == NewLLMConfig(filtered_data)
    IN  [r EXCEPT !.warned = unknown_keys]

----------------------------------------------------------------------------
(* LLMConfig.merge_with (config.py 159-176) *)

\* `not overrides`: None and the empty dict are falsy
Falsy(ov) == ov.kind = "none" \/ DOMAIN ov.d = {}

merge_with(self, ov) ==
    IF Falsy(ov) THEN Returned(self, {}, TRUE)
    ELSE LET current == Restrict(asdict(self),
                            {k \in DOMAIN asdict(self) : ~ StartsWithUnderscore(k)})
         IN  from_dict(Update(current, ov.d))

----------------------------------------------------------------------------
(* LLMConfig.to_api_params (config.py 129-157) *)

\* the fields typed Optional: the only ones whose value can be None
OptionalFields ==
    {"stop", "seed", "frequency_penalty", "presence_penalty", "logit_bias",
     "user", "response_format"}

IsNone(k, v) == k \in OptionalFields /\ v = None

\* a to_api_params that leaves the stream flag to the transport's default
to_api_params_no_stream(self, portable_only) ==
    LET d == asdict(self)
        keep == {k \in DOMAIN d :
                    /\ ~ StartsWithUnderscore(k)
                    /\ ~ IsNone(k, d[k])
                    /\ k # "stream"
                    /\ ~ (portable_only /\ k \in self["_ADVANCED_FIELDS"])}
    IN  [k \in keep |-> d[k]]

to_api_params(self, portable_only) ==
    LET d == asdict(self)
        keep == {k \in DOMAIN d :
                    /\ ~ StartsWithUnderscore(k)
                    /\ ~ IsNone(k, d[k])
                    /\ ~ (portable_only /\ k \in self["_ADVANCED_FIELDS"])}
    IN  [k \in keep |-> d[k]]

----------------------------------------------------------------------------
(* BaseLLMClient.__init__ and _resolve_config (base.py 19-48, 86-108) *)

\* the config self._default_config is set to, or the error of from_dict
client_init(default_arg) ==
    IF default_arg.kind = "none" THEN NewLLMConfig(EmptyDict)
    ELSE IF default_arg.kind = "dict" THEN from_dict(default_arg.d)
    ELSE Returned(default_arg.d, {}, FALSE)

\* a resolution that builds the dict form on the field defaults alone
resolve_config_no_merge(self_default, config) ==
    IF config.kind = "none" THEN Returned(self_default, {}, TRUE)
    ELSE IF config.kind = "dict" THEN from_dict(config.d)
    ELSE Returned(config.d, {}, FALSE)

resolve_config(self_default, config) ==
    IF config.kind = "none" THEN Returned(self_default, {}, TRUE)
    ELSE IF config.kind = "dict" THEN merge_with(self_default, config)
    ELSE Returned(config.d, {}, FALSE)

----------------------------------------------------------------------------
(* Inputs of the LLMConfig operations *)

\* at most this many keys in a drawn mapping
MaxDictKeys == 2

\* the keys a drawn mapping may hold: every public field, a key that is no
\* field, and a private field name
DictKeys == PublicFields \cup {"foo", "_STANDARD_FIELDS", "_ADVANCED_FIELDS"}

\* the values drawn for a key: inside, on and outside the bounds
DictVals(k) ==
    CASE k = "temperature" -> {-1, 0, 20, 21}
      [] k = "top_p" -> {-1, 0, 10, 11}
      [] k = "max_tokens" -> {0, 1, 500}
      [] k = "frequency_penalty" -> {None, Some(-21), Some(-20), Some(20), Some(21)}
      [] k = "presence_penalty" -> {None, Some(-21), Some(-20), Some(20), Some(21)}
      [] k = "stream" -> {TRUE, FALSE}
      [] k = "stop" -> {None, Some(<<"END">>)}
      [] k = "seed" -> {None, Some(42)}
      [] k = "logit_bias" -> {None, Some([t50256 |-> -100])}
      [] k = "user" -> {None, Some("user-1")}
      [] k = "response_format" -> {None, Some([type |-> "json_object"])}
      [] k = "foo" -> {123}
      [] k = "_STANDARD_FIELDS" -> {{"temperature"}}
      [] k = "_ADVANCED_FIELDS" -> {{}}

RECURSIVE DictsOver(_)
DictsOver(S) ==
    IF S = {} THEN {EmptyDict}
    ELSE LET k == CHOOSE x \in S : TRUE
         IN  {(k :> v) @@ d : v \in DictVals(k), d \in DictsOver(S \ {k})}

InputDicts ==
    UNION {DictsOver(S) : S \in {T \in SUBSET DictKeys : Cardinality(T) <= MaxDictKeys}}

InputArgs ==
    {[kind |-> "none", d |-> EmptyDict]} \cup {[kind |-> "dict", d |-> d] : d \in InputDicts}

\* the configs methods are called on: the default config, the base of
\* test_merge_with_overrides, and one with every bounded field on a bound
BaseKwargs ==
    {EmptyDict,
     [temperature |-> 5, max_tokens |-> 500],
     [temperature |-> 0, top_p |-> 0, max_tokens |-> 1, stream |-> TRUE,
      frequency_penalty |-> Some(-20), presence_penalty |-> Some(20),
      seed |-> Some(42), stop |-> Some(<<"END">>)]}

BaseConfigs == {NewLLMConfig(kw).cfg : kw \in BaseKwargs}

ConfigArgs == {[kind |-> "config", d |-> c] : c \in BaseConfigs}

NoResult == Raised("none", "none", {})

NoParams == <<>>

\* no round trip and no second merge made
NotAgain == [round_trip |-> NoResult, merge_again |-> NoResult]

----------------------------------------------------------------------------
(* The transport (AsyncOpenAI.chat.completions.create) and its errors *)

\* what one invocation of the transport does: return, or raise one of
\*   APIError             the provider error the retry decorator names
\*   AuthenticationError  bad credentials; a subclass of APIError in openai
\*   OSError              an error outside the openai hierarchy
Outcomes == {"ok", "APIError", "AuthenticationError", "OSError"}

TransportErrors == Outcomes \ {"ok"}

\* isinstance(exc, APIError)
IsAPIError(exc) == exc \in {"APIError", "AuthenticationError"}

\* the length of a drawn transport script
ScriptLen == 4

Scripts == [1..ScriptLen -> Outcomes]

\* the n-th invocation's outcome; past its end a script repeats its last one
Outcome(s, n) == IF n <= Len(s) THEN s[n] ELSE s[Len(s)]

\* the contents a streamed delta may carry
Fragments == {None, Some(""), Some(" "), Some("Hello"), Some("world")}

\* at most this many deltas in one stream
MaxStream == 4

\* the provider's response to a completed chat call
TransportResponse ==
    [content |-> Some("Hi"), usage |-> Some([prompt_tokens |-> 10,
                                              completion_tokens |-> 20,
                                              total_tokens |-> 30])]

\* the provider's responses: the first choice's message content (a str, that
\* may be empty, or None) and the usage (None, or the three token counts)
TransportResponses ==
    {[content |-> c, usage |-> u] :
        c \in {None, Some(""), Some("Hi")},
        u \in {None,
               Some([prompt_tokens |-> 0, completion_tokens |-> 0, total_tokens |-> 0]),
               Some([prompt_tokens |-> 10, completion_tokens |-> 20, total_tokens |-> 30])}}

NoResponse == <<>>

\* an LLMResponse built without the `or ""` of the content
LLMResponseOfRawContent(response) ==
    [content |-> response.content,
     role |-> "assistant",
     token_usage |->
        IF response.usage = None
        THEN [input |-> 0, output |-> 0, total |-> 0]
        ELSE [input |-> response.usage[1].prompt_tokens,
              output |-> response.usage[1].completion_tokens,
              total |-> response.usage[1].total_tokens]]

\* client.py 83-99: the LLMResponse built from the provider's response
LLMResponseOf(response) ==
    [content |-> IF response.content = None THEN "" ELSE response.content[1],
     role |-> "assistant",
     token_usage |->
        IF response.usage = None
        THEN [input |-> 0, output |-> 0, total |-> 0]
        ELSE [input |-> response.usage[1].prompt_tokens,
              output |-> response.usage[1].completion_tokens,
              total |-> response.usage[1].total_tokens]]

----------------------------------------------------------------------------
(* The retry decorator of achat (client.py 50-55) *)

StopAfterAttempt == 3
WaitMultiplier == 1
WaitMin == 4
WaitMax == 10

Max(a, b) == IF a >= b THEN a ELSE b
Min(a, b) == IF a <= b THEN a ELSE b

\* an exponential wait with a ceiling and no floor
wait_exponential_no_floor(multiplier, min, max, k) ==
    Min(multiplier * 2 ^ (k - 1), max)

\* tenacity's wait_exponential(multiplier, min, max) with exp_base 2, after
\* the k-th attempt: max(max(0, min), min(multiplier * 2 ** (k - 1), max))
wait_exponential(multiplier, min, max, k) ==
    Max(Max(0, min), Min(multiplier * 2 ^ (k - 1), max))

\* wait_exponential(multiplier=1, min=4, max=10) after the k-th attempt
WaitExponential(k) == wait_exponential(WaitMultiplier, WaitMin, WaitMax, k)

\* a retry predicate that retries on every exception
RetryIfAnyException(exc) == TRUE

\* retry_if_exception_type(APIError), applied to the exception that leaves
\* achat's body: after the except clause of client.py 101-103 that is the
\* RuntimeError, not the transport's error
RetryIf(exc) == IsAPIError(exc)

\* stop_after_attempt(3)
Stop(k) == k >= StopAfterAttempt

----------------------------------------------------------------------------
(* Inputs of the client *)

\* default_config arguments of OpenAIClient(...): none, the dict of
\* test_init_with_dict_config, and ready LLMConfig objects
ClientDefaultArgs ==
    {[kind |-> "none", d |-> EmptyDict],
     [kind |-> "dict", d |-> [temperature |-> 3]]} \cup ConfigArgs

\* config arguments of achat / astream
CallArgs ==
    {[kind |-> "none", d |-> EmptyDict],
     [kind |-> "dict", d |-> EmptyDict],
     [kind |-> "dict", d |-> [temperature |-> 9]],
     [kind |-> "dict", d |-> [temperature |-> 21]],
     [kind |-> "dict", d |-> [stream |-> FALSE, foo |-> 123]],
     [kind |-> "dict", d |-> [max_tokens |-> 0]]} \cup ConfigArgs

----------------------------------------------------------------------------
(* The declared bounds, as a test on the values asked of a construction *)

\* the value a construction is asked to give field k
Requested(d, k) == IF k \in DOMAIN d THEN d[k] ELSE FieldDefaults[k]

PenaltyOutside(p) == p # None /\ (p[1] < -20 \/ p[1] > 20)

\* some bounded field is asked a value outside its declared bound
OutOfBound(d) ==
    \/ Requested(d, "temperature") < 0 \/ Requested(d, "temperature") > 20
    \/ Requested(d, "top_p") < 0 \/ Requested(d, "top_p") > 10
    \/ Requested(d, "max_tokens") < 1
    \/ PenaltyOutside(Requested(d, "frequency_penalty"))
    \/ PenaltyOutside(Requested(d, "presence_penalty"))

----------------------------------------------------------------------------
(* The states before any call and before any LLMConfig operation *)

IdleCall ==
    /\ op = "none"
    /\ pc = "idle"
    /\ arg = [kind |-> "none", d |-> EmptyDict]
    /\ script = <<>>
    /\ attempt_number = 0
    /\ invocations = 0
    /\ requests = <<>>
    /\ waits = <<>>
    /\ transport_err = "none"
    /\ raised = "none"
    /\ cause = "none"
    /\ api_response = NoResponse
    /\ result = NoResponse
    /\ delivered = <<>>
    /\ yielded = <<>>

NoConfigOp ==
    /\ cbase = NoConfig
    /\ cdata = [kind |-> "none", d |-> EmptyDict]
    /\ cop = "unused"
    /\ cres = NoResult
    /\ cbase0 = NoConfig
    /\ cparams = NoParams
    /\ cmutated = FALSE
    /\ cagain = NotAgain

\* the tasks that call the client at the same time
Tasks == {"t1", "t2"}

IdleTask ==
    [op |-> "none", pc |-> "idle", arg |-> [kind |-> "none", d |-> EmptyDict],
     messages |-> <<>>, resolved |-> NoConfig, formatted |-> <<>>,
     params |-> NoParams, raised |-> "none"]

NoTasks ==
    /\ tasks = [t \in Tasks |-> IdleTask]
    /\ wire = <<>>

NoMessage == <<>>

NoMessageOp ==
    /\ mkwargs = EmptyDict
    /\ mop = "unused"
    /\ mmsg = NoMessage
    /\ merr = "none"
    /\ mpairs = <<>>

NoWaits ==
    /\ wpolicy = EmptyDict
    /\ wwaits = <<>>

----------------------------------------------------------------------------
(* SpecConfig: one LLMConfig operation applied to a drawn input *)

ConfigInit ==
    /\ cbase \in BaseConfigs
    /\ cdata \in InputArgs \cup ConfigArgs
    /\ cop = "input"
    /\ cres = NoResult
    /\ cbase0 = cbase
    /\ cparams = NoParams
    /\ cmutated = FALSE
    /\ cagain = NotAgain
    /\ default_config = cbase
    /\ IdleCall
    /\ NoTasks
    /\ NoMessageOp
    /\ NoWaits

\* LLMConfig(**d)
Construct ==
    /\ cop = "input"
    /\ cdata.kind = "dict"
    /\ cop' = "construct"
    /\ cres' = NewLLMConfig(cdata.d)
    /\ UNCHANGED <<cbase, cdata, cbase0, cparams, cmutated, cagain, clientvars, concvars, valuevars>>

\* LLMConfig.from_dict(d)
FromDict ==
    /\ cop = "input"
    /\ cdata.kind = "dict"
    /\ cop' = "from_dict"
    /\ cres' = from_dict(cdata.d)
    /\ UNCHANGED <<cbase, cdata, cbase0, cparams, cmutated, cagain, clientvars, concvars, valuevars>>

\* cbase.merge_with(overrides)
MergeWith ==
    /\ cop = "input"
    /\ cdata.kind \in {"none", "dict"}
    /\ cop' = "merge_with"
    /\ cres' = merge_with(cbase, cdata)
    /\ UNCHANGED <<cbase, cdata, cbase0, cparams, cmutated, cagain, clientvars, concvars, valuevars>>

\* a client whose default config is cbase resolves the per-call argument
ResolveConfig ==
    /\ cop = "input"
    /\ cop' = "resolve_config"
    /\ cres' = resolve_config(cbase, cdata)
    /\ UNCHANGED <<cbase, cdata, cbase0, cparams, cmutated, cagain, clientvars, concvars, valuevars>>

\* the produced config is turned into request parameters, in both modes
ToApiParams ==
    /\ cop \in {"construct", "from_dict", "merge_with", "resolve_config"}
    /\ cres.err = "none"
    /\ cparams = NoParams
    /\ cparams' = [full |-> to_api_params(cres.cfg, FALSE),
                   portable |-> to_api_params(cres.cfg, TRUE)]
    /\ UNCHANGED <<cbase, cdata, cop, cres, cbase0, cmutated, cagain, clientvars, concvars, valuevars>>

\* the fields of the config object res that hold the very list object the
\* config self holds: all of them when res is self; none when res was built
\* by from_dict from asdict(self), which copies lists and dicts
SharedWithSelf(res) == IF res.is_self THEN {"stop"} ELSE {}

\* the fields of the config object res that hold the very list object the
\* overrides mapping holds: current.update(overrides) and cls(**valid) pass
\* the caller's list on without copying it
SharedWithOverrides(res, overrides) ==
    IF /\ ~ res.is_self
       /\ overrides.kind = "dict"
       /\ "stop" \in DOMAIN overrides.d
    THEN {"stop"}
    ELSE {}

\* the fields of the config object again, which res.merge_with(overrides)
\* returned, that hold the very list object res holds: all of them when
\* again is res itself (if not overrides: return self); the stop list when
\* the overrides carry one, which both results took from the caller uncopied
SharedWithResult(again, overrides) ==
    IF again = NoResult \/ again.err # "none" THEN {}
    ELSE IF again.is_self THEN {"stop"}
    ELSE IF overrides.kind = "dict" /\ "stop" \in DOMAIN overrides.d THEN {"stop"}
    ELSE {}

\* the caller of merge_with appends to the stop list of the config it got
\* back (merged.stop.append("X"))
MutateResult ==
    /\ cop = "merge_with"
    /\ cres.err = "none"
    /\ ~ cmutated
    /\ cres.cfg.stop # None
    /\ cmutated' = TRUE
    /\ cres' = [cres EXCEPT !.cfg.stop = Some(Append(@[1], "X"))]
    /\ cbase' = IF "stop" \in SharedWithSelf(cres)
                THEN [cbase EXCEPT !.stop = Some(Append(@[1], "X"))]
                ELSE cbase
    /\ cdata' = IF "stop" \in SharedWithOverrides(cres, cdata)
                THEN [cdata EXCEPT !.d.stop = Some(Append(cres.cfg.stop[1], "X"))]
                ELSE cdata
    /\ cagain' = IF "stop" \in SharedWithResult(cagain.merge_again, cdata)
                 THEN [cagain EXCEPT !.merge_again.cfg.stop =
                                         Some(Append(cres.cfg.stop[1], "X"))]
                 ELSE cagain
    /\ UNCHANGED <<cop, cbase0, cparams, clientvars, concvars, valuevars>>

\* LLMConfig.from_dict(c.to_api_params()) for the produced config c
RoundTrip ==
    /\ cop \in {"construct", "from_dict", "merge_with", "resolve_config"}
    /\ cres.err = "none"
    /\ cagain.round_trip = NoResult
    /\ cagain' = [cagain EXCEPT
                     !.round_trip = from_dict(to_api_params(cres.cfg, FALSE))]
    /\ UNCHANGED <<cbase, cdata, cop, cres, cbase0, cparams, cmutated,
                   clientvars, concvars, valuevars>>

\* c.merge_with(overrides) for the config c that cbase.merge_with(overrides)
\* produced
MergeAgain ==
    /\ cop = "merge_with"
    /\ cres.err = "none"
    /\ cagain.merge_again = NoResult
    /\ cagain' = [cagain EXCEPT !.merge_again = merge_with(cres.cfg, cdata)]
    /\ UNCHANGED <<cbase, cdata, cop, cres, cbase0, cparams, cmutated,
                   clientvars, concvars, valuevars>>

ConfigNext ==
    \/ RoundTrip
    \/ MergeAgain
    \/ Construct
    \/ FromDict
    \/ MergeWith
    \/ ResolveConfig
    \/ ToApiParams
    \/ MutateResult

SpecConfig == ConfigInit /\ [][ConfigNext]_vars

----------------------------------------------------------------------------
(* Spec: calls of achat and astream on one client, one after the other *)

Init ==
    /\ \E a \in ClientDefaultArgs :
          /\ client_init(a).err = "none"
          /\ default_config = client_init(a).cfg
    /\ IdleCall
    /\ NoConfigOp
    /\ NoTasks
    /\ NoMessageOp
    /\ NoWaits

\* the caller calls achat(messages, config): tenacity starts its first attempt
AchatCall ==
    /\ pc = "idle"
    /\ op' = "achat"
    /\ pc' = "attempt"
    /\ arg' \in CallArgs
    /\ script' \in Scripts
    /\ attempt_number' = 1
    /\ UNCHANGED <<invocations, requests, waits, transport_err, raised, cause,
                   api_response, result, delivered, yielded>>
    /\ UNCHANGED <<default_config, cvars, concvars, valuevars>>

\* tenacity's reaction to an exception exc (with __cause__ c) out of achat's
\* body: not retried, or stopped and re-raised, or slept on and tried again
AfterRaise(exc, c) ==
    IF RetryIf(exc) /\ ~ Stop(attempt_number)
    THEN /\ pc' = "attempt"
         /\ attempt_number' = attempt_number + 1
         /\ waits' = Append(waits, WaitExponential(attempt_number))
         /\ UNCHANGED <<raised, cause>>
    ELSE /\ pc' = "failed"
         /\ raised' = exc
         /\ cause' = c
         /\ UNCHANGED <<attempt_number, waits>>

\* one attempt runs achat's body up to the await of the transport
\* (client.py 71-81)
AchatAttempt ==
    /\ op = "achat"
    /\ pc = "attempt"
    /\ LET resolved == resolve_config(default_config, arg)
       IN  IF resolved.err # "none"
           THEN /\ AfterRaise(resolved.err, "none")
                /\ UNCHANGED <<invocations, requests>>
           ELSE /\ invocations' = invocations + 1
                /\ requests' = Append(requests, to_api_params(resolved.cfg, FALSE))
                /\ pc' = "awaiting"
                /\ UNCHANGED <<attempt_number, waits, raised, cause>>
    /\ UNCHANGED <<op, arg, script, transport_err, api_response, result, delivered, yielded>>
    /\ UNCHANGED <<default_config, cvars, concvars, valuevars>>

\* the except clause of achat (client.py 101-103): the error the body raises
\* for an exception e of the try block, and its __cause__
WrapError(e) == [exc |-> "RuntimeError", cause |-> e]

\* the transport answers the attempt (client.py 83-103)
AchatReply ==
    /\ op = "achat"
    /\ pc = "awaiting"
    /\ LET o == Outcome(script, invocations)
       IN  IF o = "ok"
           THEN /\ api_response' \in TransportResponses
                /\ result' = LLMResponseOf(api_response')
                /\ pc' = "done"
                /\ UNCHANGED <<attempt_number, waits, raised, cause, transport_err>>
           ELSE /\ transport_err' = o
                /\ AfterRaise(WrapError(o).exc, WrapError(o).cause)
                /\ UNCHANGED <<api_response, result>>
    /\ UNCHANGED <<op, arg, script, invocations, requests, delivered, yielded>>
    /\ UNCHANGED <<default_config, cvars, concvars, valuevars>>

\* the caller calls astream(messages, config): an async generator object is
\* made and none of its body has run
AstreamCall ==
    /\ pc = "idle"
    /\ op' = "astream"
    /\ pc' = "created"
    /\ arg' \in CallArgs
    /\ UNCHANGED <<script, attempt_number, invocations, requests, waits,
                   transport_err, raised, cause, api_response, result, delivered, yielded>>
    /\ UNCHANGED <<default_config, cvars, concvars, valuevars>>

\* a parameter dict left as to_api_params made it
ForceStreamForgotten(api_params) == api_params

\* client.py 125: api_params["stream"] = True
ForceStream(api_params) == Update(api_params, [stream |-> TRUE])

\* a to_api_params that hands out the config's own attribute dict: a write
\* to the stream key of the dict is a write to the config
ConfigAfterWriteThrough(cfg, api_params) ==
    [cfg EXCEPT !.stream = api_params.stream]

\* the config object cfg after the dict api_params, made by
\* cfg.to_api_params(), has been written to: as before, the dict is a new
\* one filled from asdict(cfg), a copy (config.py 140-157)
ConfigAfterWrite(cfg, api_params) == cfg

\* the consumer asks for the first fragment: the body runs up to the await
\* of the transport (client.py 120-131).  The resolved config is the client's
\* default object itself for config None and for an empty dict, and the
\* caller's object for an LLMConfig argument.
AstreamStart ==
    /\ op = "astream"
    /\ pc = "created"
    /\ LET resolved == resolve_config(default_config, arg)
       IN  IF resolved.err # "none"
           THEN /\ pc' = "failed"
                /\ raised' = resolved.err
                /\ UNCHANGED <<invocations, requests>>
                /\ UNCHANGED <<default_config, arg>>
           ELSE LET api_params == ForceStream(to_api_params(resolved.cfg, FALSE))
                    after == ConfigAfterWrite(resolved.cfg, api_params)
                IN  /\ invocations' = invocations + 1
                    /\ requests' = Append(requests, api_params)
                    /\ pc' = "opening"
                    /\ default_config' = IF resolved.is_self THEN after
                                         ELSE default_config
                    /\ arg' = IF arg.kind = "config"
                              THEN [arg EXCEPT !.d = after] ELSE arg
                    /\ UNCHANGED raised
    /\ UNCHANGED <<op, script, attempt_number, waits, transport_err, cause,
                   api_response, result, delivered, yielded>>
    /\ UNCHANGED <<cvars, concvars, valuevars>>

\* the transport returns the stream
AstreamOpened ==
    /\ op = "astream"
    /\ pc = "opening"
    /\ pc' = "streaming"
    /\ UNCHANGED <<op, arg, script, attempt_number, invocations, requests, waits,
                   transport_err, raised, cause, api_response, result, delivered, yielded>>
    /\ UNCHANGED <<default_config, cvars, concvars, valuevars>>

\* an astream that starts over when the transport fails
AstreamFailsRestart ==
    /\ op = "astream"
    /\ pc \in {"opening", "streaming"}
    /\ invocations < 2
    /\ transport_err' \in TransportErrors
    /\ pc' = "created"
    /\ UNCHANGED <<op, arg, script, attempt_number, invocations, requests, waits,
                   raised, cause, api_response, result, delivered, yielded>>
    /\ UNCHANGED <<default_config, cvars, concvars, valuevars>>

\* an astream that wraps the transport's error as achat does
AstreamFailsWrapped ==
    /\ op = "astream"
    /\ pc \in {"opening", "streaming"}
    /\ transport_err' \in TransportErrors
    /\ pc' = "failed"
    /\ raised' = "RuntimeError"
    /\ cause' = transport_err'
    /\ UNCHANGED <<op, arg, script, attempt_number, invocations, requests, waits,
                   api_response, result, delivered, yielded>>
    /\ UNCHANGED <<default_config, cvars, concvars, valuevars>>

\* the transport raises e, when opening the stream (client.py 127) or while
\* the stream is iterated (client.py 133): no handler is around either
AstreamFails ==
    /\ op = "astream"
    /\ pc \in {"opening", "streaming"}
    /\ transport_err' \in TransportErrors
    /\ pc' = "failed"
    /\ raised' = transport_err'
    /\ UNCHANGED <<op, arg, script, attempt_number, invocations, requests, waits,
                   cause, api_response, result, delivered, yielded>>
    /\ UNCHANGED <<default_config, cvars, concvars, valuevars>>

\* a test that keeps every content but None
TruthyNotNone(content) == content # None

\* `if content:` for a content that is None or a str
Truthy(content) == content # None /\ Len(content[1]) > 0

\* the stream produces a delta (client.py 133-136)
AstreamDelta ==
    /\ op = "astream"
    /\ pc = "streaming"
    /\ Len(delivered) < MaxStream
    /\ \E content \in Fragments :
          /\ delivered' = Append(delivered, content)
          /\ yielded' = IF Truthy(content) THEN Append(yielded, content[1])
                        ELSE yielded
    /\ UNCHANGED <<op, pc, arg, script, attempt_number, invocations, requests,
                   waits, transport_err, raised, cause, api_response, result>>
    /\ UNCHANGED <<default_config, cvars, concvars, valuevars>>

\* the stream ends: the generator returns
AstreamEnd ==
    /\ op = "astream"
    /\ pc = "streaming"
    /\ pc' = "done"
    /\ UNCHANGED <<op, arg, script, attempt_number, invocations, requests, waits,
                   transport_err, raised, cause, api_response, result, delivered, yielded>>
    /\ UNCHANGED <<default_config, cvars, concvars, valuevars>>

\* the caller has its result or its error; the client is ready for a new call
Return ==
    /\ pc \in {"done", "failed"}
    /\ op' = "none"
    /\ pc' = "idle"
    /\ arg' = [kind |-> "none", d |-> EmptyDict]
    /\ script' = <<>>
    /\ attempt_number' = 0
    /\ invocations' = 0
    /\ requests' = <<>>
    /\ waits' = <<>>
    /\ transport_err' = "none"
    /\ raised' = "none"
    /\ cause' = "none"
    /\ api_response' = NoResponse
    /\ result' = NoResponse
    /\ delivered' = <<>>
    /\ yielded' = <<>>
    /\ UNCHANGED <<default_config, cvars, concvars, valuevars>>

\* field assignments a caller holding client.default_config makes between
\* calls, as <<field, value>>: temperature = 5.0 and max_tokens = 0
Assignments == {<<"temperature", 50>>, <<"max_tokens", 0>>}

\* the caller assigns a field of the config object the client holds
\* (client.default_config.temperature = 5.0): LLMConfig is a dataclass that
\* is not frozen, the assignment is stored and __post_init__ does not run.
\* The model follows the first assignment that leaves the bounds.
AssignField ==
    /\ pc = "idle"
    /\ ~ OutOfBound(default_config)
    /\ \E a \in Assignments :
          default_config' = [default_config EXCEPT ![a[1]] = a[2]]
    /\ UNCHANGED <<callvars, cvars, concvars, valuevars>>

Next ==
    \/ AssignField
    \/ AchatCall
    \/ AchatAttempt
    \/ AchatReply
    \/ AstreamCall
    \/ AstreamStart
    \/ AstreamOpened
    \/ AstreamFails
    \/ AstreamDelta
    \/ AstreamEnd
    \/ Return

Spec == Init /\ [][Next]_vars

\* one call of achat, with the scheduling the event loop and the transport
\* give: a started attempt runs on, and an awaited invocation returns or
\* raises
AchatNext ==
    \/ AchatCall
    \/ AchatAttempt
    \/ AchatReply

\* OpenAIClient() with no default_config argument
AchatInit ==
    /\ Init
    /\ default_config = client_init([kind |-> "none", d |-> EmptyDict]).cfg

SpecAchat ==
    /\ AchatInit
    /\ [][AchatNext]_vars
    /\ WF_vars(AchatAttempt)
    /\ WF_vars(AchatReply)

----------------------------------------------------------------------------
(* Messages and BaseLLMClient._format_messages (chat.py 7-25, base.py       *)
(* 110-118)                                                                 *)

\* the members of the enum Role, by name
Role == {"SYSTEM", "USER", "ASSISTANT", "TOOL"}

\* Role.value
RoleValue(r) ==
    CASE r = "SYSTEM" -> "system"
      [] r = "USER" -> "user"
      [] r = "ASSISTANT" -> "assistant"
      [] r = "TOOL" -> "tool"

\* Message(role=..., content=..., name=..., metadata=...)
Message(role, content, name, metadata) ==
    [role |-> role, content |-> content, name |-> name, metadata |-> metadata]

\* a formatting that passes the name on as well
format_message_with_name(msg) ==
    [role |-> RoleValue(msg.role), content |-> msg.content, name |-> msg.name]

\* {"role": msg.role.value, "content": msg.content}
format_message(msg) ==
    [role |-> RoleValue(msg.role), content |-> msg.content]

\* the list comprehension over messages
format_messages(messages) ==
    [i \in 1..Len(messages) |-> format_message(messages[i])]

\* the messages the calls are given
SystemS == Message("SYSTEM", "S", None, EmptyDict)

UserU == Message("USER", "U", Some("bob"), [tokens |-> 3])

AssistantU == Message("ASSISTANT", "U", None, EmptyDict)

ToolS == Message("TOOL", "S", Some("search"), EmptyDict)

\* the lists of messages the calls are given: empty, in both orders, with
\* the same message twice, with two messages of equal content
MessageLists ==
    {<<>>,
     <<SystemS, UserU>>,
     <<UserU, SystemS>>,
     <<AssistantU, AssistantU>>,
     <<SystemS, UserU, AssistantU, ToolS>>}

----------------------------------------------------------------------------
(* SpecMessage: one Message is constructed, and its holder then tries to    *)
(* assign its fields, changes its metadata dict in place, and formats it    *)
(* (chat.py 14-25: a pydantic model with frozen=True)                       *)

MessageFields == {"role", "content", "name", "metadata"}

\* the fields declared without a default (chat.py 18-19)
RequiredFields == {"role", "content"}

\* the defaults of the other fields (chat.py 21-23)
MessageDefaults == [name |-> None, metadata |-> EmptyDict]

\* Message(**kwargs): pydantic raises ValidationError when a required field
\* is missing
NewMessage(kwargs) ==
    IF ~ (RequiredFields \subseteq DOMAIN kwargs)
    THEN [err |-> "ValidationError", msg |-> NoMessage]
    ELSE [err |-> "none",
          msg |-> Message(kwargs.role, kwargs.content,
                          IF "name" \in DOMAIN kwargs THEN kwargs.name
                          ELSE MessageDefaults.name,
                          IF "metadata" \in DOMAIN kwargs THEN kwargs.metadata
                          ELSE MessageDefaults.metadata)]

\* an assignment on a model that is not frozen: the value is stored
setattr_unfrozen(msg, f, v) == [err |-> "none", msg |-> [msg EXCEPT ![f] = v]]

\* msg.f = v on a model with frozen=True: pydantic raises ValidationError
\* (frozen_instance) and stores nothing
setattr(msg, f, v) == [err |-> "ValidationError", msg |-> msg]

\* the values the constructor is given for a field
MessageVals(f) ==
    CASE f = "role" -> Role
      [] f = "content" -> {"S", "U"}
      [] f = "name" -> {Some("bob")}
      [] f = "metadata" -> {[tokens |-> 3]}

RECURSIVE MessageKwargsOver(_)
MessageKwargsOver(S) ==
    IF S = {} THEN {EmptyDict}
    ELSE LET f == CHOOSE x \in S : TRUE
         IN  {(f :> v) @@ d : v \in MessageVals(f), d \in MessageKwargsOver(S \ {f})}

MessageKwargs == UNION {MessageKwargsOver(S) : S \in SUBSET MessageFields}

\* the values the holder tries to assign to a field
AssignedVals(f) ==
    CASE f = "role" -> Role
      [] f = "content" -> {"U", "Changed"}
      [] f = "name" -> {None, Some("eve")}
      [] f = "metadata" -> {EmptyDict, [tokens |-> 9]}

\* at most this many formattings of the one message
MaxReuse == 2

MessageInit ==
    /\ mkwargs \in MessageKwargs
    /\ mop = "input"
    /\ mmsg = NoMessage
    /\ merr = "none"
    /\ mpairs = <<>>
    /\ default_config = NewLLMConfig(EmptyDict).cfg
    /\ IdleCall
    /\ NoConfigOp
    /\ NoTasks
    /\ NoWaits

\* Message(**mkwargs)
MsgConstruct ==
    /\ mop = "input"
    /\ mop' = "construct"
    /\ mmsg' = NewMessage(mkwargs).msg
    /\ merr' = NewMessage(mkwargs).err
    /\ UNCHANGED <<mkwargs, mpairs, cvars, clientvars, concvars, waitvars>>

\* msg.f = v
MsgSetAttr ==
    /\ mmsg # NoMessage
    /\ mop' = "setattr"
    /\ \E f \in MessageFields : \E v \in AssignedVals(f) :
          /\ mmsg' = setattr(mmsg, f, v).msg
          /\ merr' = setattr(mmsg, f, v).err
    /\ UNCHANGED <<mkwargs, mpairs, cvars, clientvars, concvars, waitvars>>

\* msg.metadata["flag"] = 1: no assignment to a field of the model, the dict
\* the field holds is changed in place
MsgMutateMetadata ==
    /\ mmsg # NoMessage
    /\ "flag" \notin DOMAIN mmsg.metadata
    /\ mop' = "mutate_metadata"
    /\ mmsg' = [mmsg EXCEPT !.metadata = Update(@, [flag |-> 1])]
    /\ merr' = "none"
    /\ UNCHANGED <<mkwargs, mpairs, cvars, clientvars, concvars, waitvars>>

\* the message is passed to a call, which formats it (base.py 116)
MsgFormat ==
    /\ mmsg # NoMessage
    /\ Len(mpairs) < MaxReuse
    /\ mop' = "format"
    /\ mpairs' = Append(mpairs, format_message(mmsg))
    /\ UNCHANGED <<mkwargs, mmsg, merr, cvars, clientvars, concvars, waitvars>>

MessageNext ==
    \/ MsgConstruct
    \/ MsgSetAttr
    \/ MsgMutateMetadata
    \/ MsgFormat

SpecMessage == MessageInit /\ [][MessageNext]_vars

----------------------------------------------------------------------------
(* SpecWait: a wait_exponential policy is asked the wait after the 1st,     *)
(* 2nd, ... attempt (tenacity calls it with the attempt number)             *)

\* the policy of achat's decorator (client.py 52)
CodePolicy == [multiplier |-> WaitMultiplier, min |-> WaitMin, max |-> WaitMax]

\* the policies drawn: the one of the code, and others with and without a
\* floor, with a lower and a higher ceiling
WaitPolicies ==
    {[multiplier |-> m, min |-> lo, max |-> hi] :
        m \in {1, 2}, lo \in {0, 1, WaitMin}, hi \in {WaitMin, WaitMax, 60}}

\* the attempt numbers the policy is asked about
MaxAttemptNumber == 6

WaitInit ==
    /\ wpolicy \in WaitPolicies
    /\ wwaits = <<>>
    /\ default_config = NewLLMConfig(EmptyDict).cfg
    /\ IdleCall
    /\ NoConfigOp
    /\ NoTasks
    /\ NoMessageOp

\* the policy is called after one more failed attempt
WaitAfterAttempt ==
    /\ Len(wwaits) < MaxAttemptNumber
    /\ wwaits' = Append(wwaits,
                        wait_exponential(wpolicy.multiplier, wpolicy.min,
                                         wpolicy.max, Len(wwaits) + 1))
    /\ UNCHANGED <<wpolicy, cvars, clientvars, concvars, msgvars>>

WaitNext == WaitAfterAttempt

SpecWait == WaitInit /\ [][WaitNext]_vars

----------------------------------------------------------------------------
(* SpecConc: calls of achat and astream in progress at the same time on one *)
(* client.  A task runs its call in the steps of the code; between any two  *)
(* steps of a task the other task may run.                                  *)

\* config arguments of the concurrent calls
ConcArgs ==
    {[kind |-> "none", d |-> EmptyDict],
     [kind |-> "dict", d |-> [temperature |-> 9]],
     [kind |-> "dict", d |-> [temperature |-> 21]],
     [kind |-> "dict", d |-> [stream |-> FALSE, foo |-> 123]],
     [kind |-> "config", d |-> NewLLMConfig([temperature |-> 5, max_tokens |-> 500]).cfg]}

\* the default configs of the client the tasks share
ConcDefaults ==
    {NewLLMConfig(EmptyDict).cfg,
     NewLLMConfig([top_p |-> 5, stream |-> TRUE, stop |-> Some(<<"END">>)]).cfg}

ConcInit ==
    /\ default_config \in ConcDefaults
    /\ NoTasks
    /\ IdleCall
    /\ NoConfigOp
    /\ NoMessageOp
    /\ NoWaits

\* the step of task t that leaves its record as c and the wire as w
TaskStep(t, c, w) ==
    /\ tasks' = [tasks EXCEPT ![t] = c]
    /\ wire' = w
    /\ UNCHANGED <<cvars, clientvars, valuevars>>

\* task t calls achat(messages, config) or astream(messages, config) and
\* iterates it
ConcCall(t) ==
    /\ tasks[t].pc = "idle"
    /\ \E o \in {"achat", "astream"}, a \in ConcArgs, m \in MessageLists :
          TaskStep(t, [tasks[t] EXCEPT !.op = o, !.pc = "called", !.arg = a,
                                       !.messages = m], wire)

\* resolved_config = self._resolve_config(config)
\* formatted_msgs = self._format_messages(messages)
\* (client.py 71-72 and 120-121)
ConcResolve(t) ==
    /\ tasks[t].pc = "called"
    /\ LET r == resolve_config(default_config, tasks[t].arg)
       IN  IF r.err # "none"
           THEN TaskStep(t, [tasks[t] EXCEPT !.pc = "failed", !.raised = r.err],
                         wire)
           ELSE TaskStep(t, [tasks[t] EXCEPT
                                !.pc = "resolved",
                                !.resolved = r.cfg,
                                !.formatted = format_messages(tasks[t].messages)],
                         wire)

\* api_params = resolved_config.to_api_params(), and for astream
\* api_params["stream"] = True (client.py 73 and 124-125)
ConcParams(t) ==
    /\ tasks[t].pc = "resolved"
    /\ LET p == to_api_params(tasks[t].resolved, FALSE)
       IN  TaskStep(t, [tasks[t] EXCEPT
                           !.pc = "ready",
                           !.params = IF tasks[t].op = "astream"
                                      THEN ForceStream(p) ELSE p],
                    wire)

\* a client that keeps one parameter dict for all its requests: the dict of
\* the request before, if there is one
SharedParams(t) ==
    IF wire = <<>> THEN tasks[t].params ELSE wire[Len(wire)].params

\* api_params is a local variable of the call of task t
LocalParams(t) == tasks[t].params

\* self.client.chat.completions.create(model=..., messages=formatted_msgs,
\* **api_params) is entered (client.py 77-81 and 127-131)
ConcSend(t) ==
    /\ tasks[t].pc = "ready"
    /\ TaskStep(t, [tasks[t] EXCEPT !.pc = "awaiting"],
                Append(wire, [task |-> t,
                              messages |-> tasks[t].formatted,
                              params |-> LocalParams(t)]))

\* the transport has answered and the call is over
ConcReply(t) ==
    /\ tasks[t].pc = "awaiting"
    /\ TaskStep(t, [tasks[t] EXCEPT !.pc = "done"], wire)

ConcNext ==
    \E t \in Tasks :
        \/ ConcCall(t)
        \/ ConcResolve(t)
        \/ ConcParams(t)
        \/ ConcSend(t)
        \/ ConcReply(t)

SpecConc == ConcInit /\ [][ConcNext]_vars

----------------------------------------------------------------------------
(* The claims about achat's retries (C1-C5) *)

\* the error classes the claims call transient and non-transient
Transient == {"APIError"}
NonTransient == {"AuthenticationError", "OSError"}

Finished == pc \in {"done", "failed"}

\* the call's config argument resolves, so that its body reaches the transport
ConfigResolves == resolve_config(default_config, arg).err = "none"

\* C1: for a transport that fails with a transient error on its first two
\* invocations and succeeds on the third, achat returns the LLMResponse of
\* the successful result and the transport has been invoked exactly 3 times.
C1_RetryThenSucceed ==
    (/\ op = "achat"
     /\ Finished
     /\ ConfigResolves
     /\ script[1] \in Transient
     /\ script[2] \in Transient
     /\ script[3] = "ok")
    => (/\ pc = "done"
        /\ result = LLMResponseOf(api_response)
        /\ invocations = 3)

\* C2: for a transport that fails with a transient error on every
\* invocation, achat ends by raising, with the transport invoked exactly
\* 3 times.
C2_RaisesAfterAttemptBound ==
    (/\ op = "achat"
     /\ Finished
     /\ ConfigResolves
     /\ \A i \in DOMAIN script : script[i] \in Transient)
    => (pc = "failed" /\ invocations = 3)

\* C3: for a transport whose first invocation fails with a non-transient
\* error, achat raises after exactly 1 invocation, with no backoff and no
\* second attempt; and a transport invocation is repeated only after
\* transient errors.
C3_NonTransientNotRetried ==
    op = "achat" =>
        /\ (ConfigResolves /\ script[1] \in NonTransient) =>
              /\ invocations <= 1
              /\ attempt_number = 1
              /\ waits = <<>>
              /\ Finished => (pc = "failed" /\ invocations = 1 /\ raised # "none")
        /\ \A i \in 1..(invocations - 1) : Outcome(script, i) \in Transient

C3_Witness ==
    /\ op = "achat"
    /\ pc = "failed"
    /\ script[1] = "AuthenticationError"
    /\ invocations = 1
    /\ raised = "RuntimeError"

\* C4: when achat has used up its attempts on transient errors, the error
\* the caller receives is the last transport error itself, of the class the
\* transport raised.
C4_LastErrorUnmodified ==
    (/\ op = "achat"
     /\ pc = "failed"
     /\ ConfigResolves
     /\ \A i \in 1..3 : script[i] \in Transient)
    => (raised = transport_err /\ raised \in Transient)

\* C5 as stated: from achat and from astream alike, a failed transport
\* invocation reaches the caller as a RuntimeError whose cause is the
\* transport error.
C5_BothOperationsWrap ==
    (op \in {"achat", "astream"} /\ pc = "failed" /\ transport_err # "none")
    => (raised = "RuntimeError" /\ cause = transport_err)

\* C5 as amended: achat delivers a RuntimeError whose cause is the transport
\* error; astream delivers the transport error itself, unwrapped.
C5_AchatWrapsAstreamRaw ==
    (pc = "failed" /\ transport_err # "none") =>
        /\ op = "achat" => (raised = "RuntimeError" /\ cause = transport_err)
        /\ op = "astream" => (raised = transport_err /\ cause = "none")

C5_Witness ==
    /\ op = "astream"
    /\ pc = "failed"
    /\ delivered = <<Some("Hello")>>
    /\ transport_err = "APIError"
    /\ raised = "APIError"

----------------------------------------------------------------------------
(* The claims about astream (C6-C8) *)

\* the texts of the deltas that carry a non-empty string, in order
RECURSIVE NonEmptyTexts(_)
NonEmptyTexts(ds) ==
    IF ds = <<>> THEN <<>>
    ELSE IF Head(ds) = None \/ Head(ds) = Some("") THEN NonEmptyTexts(Tail(ds))
    ELSE <<Head(ds)[1]>> \o NonEmptyTexts(Tail(ds))

\* C6: astream yields exactly the non-empty fragments of the deltas the
\* transport produced, in transport order, each once; None and "" are never
\* yielded and " " is kept.
C6_YieldsNonEmptyInOrder ==
    op = "astream" => yielded = NonEmptyTexts(delivered)

C6_Witness ==
    /\ op = "astream"
    /\ pc = "done"
    /\ delivered = <<Some("Hello"), None, Some(""), Some("world")>>
    /\ yielded = <<"Hello", "world">>

\* C7: every transport invocation of astream carries stream = TRUE, whatever
\* the client default and the per-call override resolve to.
C7_StreamForcedTrue ==
    op = "astream" =>
        \A i \in DOMAIN requests :
            "stream" \in DOMAIN requests[i] /\ requests[i].stream = TRUE

C7_Witness ==
    /\ op = "astream"
    /\ arg = [kind |-> "dict", d |-> [stream |-> FALSE, foo |-> 123]]
    /\ ConfigResolves
    /\ resolve_config(default_config, arg).cfg.stream = FALSE
    /\ Len(requests) = 1
    /\ requests[1].stream = TRUE

\* C8: one consumption of astream invokes the transport at most once; a
\* transport failure, at opening or in mid-stream, ends the call with the
\* transport's error delivered as raised, and every yielded fragment comes
\* from a delta of the one stream.
C8_StreamNotRetried ==
    op = "astream" =>
        /\ invocations <= 1
        /\ Len(requests) = invocations
        /\ transport_err # "none" =>
              (pc = "failed" /\ raised = transport_err /\ cause = "none")
        /\ Len(yielded) <= Len(delivered)

C8_Witness ==
    /\ op = "astream"
    /\ pc = "failed"
    /\ invocations = 1
    /\ yielded = <<"Hello", " ">>
    /\ transport_err = "OSError"
    /\ raised = "OSError"

----------------------------------------------------------------------------
(* The claims about LLMConfig validation (C9, C10) *)

\* C9: LLMConfig(**d) raises ValueError and yields no config when a bounded
\* field is out of bound, and otherwise succeeds with every field at the
\* value asked (nothing is clamped), the bounds themselves included.
C9_ConstructionValidates ==
    (cop = "construct" /\ DOMAIN cdata.d \subseteq PublicFields) =>
        IF OutOfBound(cdata.d)
        THEN cres.err = "ValueError" /\ cres.cfg = NoConfig
        ELSE /\ cres.err = "none"
             /\ \A k \in PublicFields : cres.cfg[k] = Requested(cdata.d, k)

C9_Witness ==
    /\ cop = "construct"
    /\ cdata.d = [temperature |-> 20, frequency_penalty |-> Some(-21)]
    /\ cres.err = "ValueError"
    /\ cres.field = "frequency_penalty"

\* the mapping itself sets a bounded key out of bound
DictOutOfBound(d) == OutOfBound(Restrict(d, PublicFields)) /\ ~ OutOfBound(EmptyDict)

\* C10: from_dict, merge_with and _resolve_config raise a validation error
\* for a mapping that sets a bounded key out of bound, on every valid base.
C10_DictOverridesValidated ==
    (/\ cop \in {"from_dict", "merge_with", "resolve_config"}
     /\ cdata.kind = "dict"
     /\ DictOutOfBound(cdata.d))
    => (cres.err = "ValueError" /\ cres.cfg = NoConfig)

C10_Witness ==
    /\ cop = "resolve_config"
    /\ cbase.temperature = 5
    /\ cdata = [kind |-> "dict", d |-> [max_tokens |-> 0, foo |-> 123]]
    /\ cres.err = "ValueError"
    /\ cres.field = "max_tokens"

----------------------------------------------------------------------------
(* The claims about config resolution (C11-C16) *)

\* the keys of a mapping that are no LLMConfig parameter
UnknownKeys(d) == DOMAIN d \ PublicFields

KnownKeys(d) == DOMAIN d \cap PublicFields

MappingOps == {"from_dict", "merge_with", "resolve_config"}

\* C11: a mapping with keys that are no LLMConfig parameter makes from_dict,
\* merge_with and _resolve_config raise nothing but the ValueError of an
\* out-of-bound known key; the warning names exactly the ignored keys, none
\* of which is set on the produced config, every known key of the mapping
\* has the mapping's value in the produced config,
\* and to_api_params holds none of the unknown keys and the mapping's value
\* for every known key it holds.
C11_UnknownKeysDropped ==
    (/\ cop \in MappingOps
     /\ cdata.kind = "dict"
     /\ UnknownKeys(cdata.d) # {}
     /\ ~ cmutated)
    => /\ cres.err = (IF DictOutOfBound(cdata.d) THEN "ValueError" ELSE "none")
       /\ cres.warned = UnknownKeys(cdata.d)
       /\ cres.err = "none" =>
            /\ \A k \in KnownKeys(cdata.d) : cres.cfg[k] = cdata.d[k]
            /\ \A k \in UnknownKeys(cdata.d) \cap DOMAIN cres.cfg :
                   cres.cfg[k] = FieldDefaults[k]
            /\ cparams # NoParams =>
                 /\ UnknownKeys(cdata.d) \cap DOMAIN cparams.full = {}
                 /\ \A k \in KnownKeys(cdata.d) \cap DOMAIN cparams.full :
                        cparams.full[k] = cdata.d[k]
                 /\ \A k \in KnownKeys(cdata.d) :
                        k \in DOMAIN cparams.full \/ IsNone(k, cdata.d[k])

C11_Witness ==
    /\ cop = "merge_with"
    /\ cbase.temperature = 5
    /\ cdata = [kind |-> "dict", d |-> [foo |-> 123, seed |-> Some(42)]]
    /\ cres.err = "none"
    /\ cres.warned = {"foo"}
    /\ cparams # NoParams
    /\ cparams.full.seed = Some(42)
    /\ "foo" \notin DOMAIN cparams.full

\* the keyword arguments a config of BaseConfigs was constructed with
KwargsOf(c) == CHOOSE kw \in BaseKwargs : NewLLMConfig(kw).cfg = c

\* the fields a per-call override specifies, and the value it gives them
Specified(a) ==
    IF a.kind = "dict" THEN KnownKeys(a.d)
    ELSE IF a.kind = "config" THEN DOMAIN KwargsOf(a.d)
    ELSE {}

\* the client default's value of field k: what the default config was
\* constructed with, else the field-level default
DefaultLayer(k) ==
    IF k \in DOMAIN KwargsOf(cbase0) THEN KwargsOf(cbase0)[k] ELSE FieldDefaults[k]

\* C12 as stated: per field, the per-call override's value if it specifies
\* the field, else the client default's, else the field default, for a dict
\* and for an LLMConfig override alike.
C12_PerFieldPrecedence ==
    (cop = "resolve_config" /\ cres.err = "none" /\ ~ cmutated) =>
        \A k \in PublicFields :
            cres.cfg[k] = IF k \in Specified(cdata) THEN cdata.d[k]
                          ELSE DefaultLayer(k)

\* C12 as amended: that precedence holds for no override and for a dict
\* override; an LLMConfig override is used whole, so a field it was not
\* constructed with has the field default, whatever the client default.
C12_DictMergesConfigReplaces ==
    (cop = "resolve_config" /\ cres.err = "none" /\ ~ cmutated) =>
        \A k \in PublicFields :
            cres.cfg[k] = IF k \in Specified(cdata) THEN cdata.d[k]
                          ELSE IF cdata.kind = "config" THEN FieldDefaults[k]
                          ELSE DefaultLayer(k)

C12_Witness ==
    /\ cop = "resolve_config"
    /\ cbase0 = NewLLMConfig([temperature |-> 5, max_tokens |-> 500]).cfg
    /\ cdata = [kind |-> "config", d |-> NewLLMConfig(EmptyDict).cfg]
    /\ cres.err = "none"
    /\ cres.cfg.temperature = 7
    /\ cres.cfg.max_tokens = 1000

\* C13: merge_with never mutates the base: after it returns or raises, and
\* after the caller has mutated a list of the merged result, every field of
\* the base has the value it had before the call.
C13_BaseNeverMutated ==
    cop = "merge_with" => cbase = cbase0

\* C14: merge_with gives a new config instance, never the base object
\* itself, None and the empty mapping included.
C14_MergeGivesNewInstance ==
    (cop = "merge_with" /\ cres.err = "none") => ~ cres.is_self

\* to_api_params has been applied to the config of the last operation
Converted == cparams # NoParams

\* C15: to_api_params(portable_only=True) never has an advanced field as a
\* key, and its standard fields have the values of to_api_params().
C15_PortableOmitsAdvanced ==
    Converted =>
        /\ DOMAIN cparams.portable \cap ADVANCED_FIELDS = {}
        /\ \A k \in STANDARD_FIELDS :
              /\ k \in DOMAIN cparams.portable <=> k \in DOMAIN cparams.full
              /\ k \in DOMAIN cparams.full => cparams.portable[k] = cparams.full[k]

\* C16: to_api_params() has exactly the public fields whose value is not
\* None, each with the value the config has, and no key starting with "_".
\* (stated of the step that converts: the mapping holds copies, so a list the
\* caller appends to afterwards is not the list of the mapping)
C16_ExactlyNonNonePublic ==
    [][ToApiParams =>
        /\ DOMAIN cparams'.full =
              {k \in PublicFields : ~ (k \in OptionalFields /\ cres.cfg[k] = None)}
        /\ \A k \in DOMAIN cparams'.full : cparams'.full[k] = cres.cfg[k]
        /\ DOMAIN cparams'.full \cap PrivateFields = {}]_vars

C16_Witness ==
    /\ Converted
    /\ cres.cfg.seed = Some(42)
    /\ cres.cfg.stop = None
    /\ "seed" \in DOMAIN cparams.full
    /\ "stop" \notin DOMAIN cparams.full
    /\ cparams.full.temperature = 5

----------------------------------------------------------------------------
(* The claims about the calls' configs and payloads (C17-C20) *)

\* the call's override is a mapping with a known field out of its bound
OverrideOutOfBound == arg.kind = "dict" /\ DictOutOfBound(arg.d)

\* C18: achat and astream given an override mapping with an out-of-bound
\* known field fail with the ValueError itself (not wrapped, no cause), the
\* transport is never invoked, and there is no backoff and no second attempt.
C18_ValidationNotSwallowedNotRetried ==
    (op \in {"achat", "astream"} /\ OverrideOutOfBound) =>
        /\ invocations = 0
        /\ requests = <<>>
        /\ waits = <<>>
        /\ attempt_number <= 1
        /\ pc \in {"attempt", "created", "failed"}
        /\ Finished => (raised = "ValueError" /\ cause = "none")

C18_Witness ==
    /\ op = "achat"
    /\ arg = [kind |-> "dict", d |-> [temperature |-> 21]]
    /\ pc = "failed"
    /\ raised = "ValueError"
    /\ attempt_number = 1
    /\ invocations = 0

\* C19: every config the client holds and every config resolved for a call
\* satisfies the declared bounds, in every reachable state.
C19_ConfigsStayInBounds ==
    /\ ~ OutOfBound(default_config)
    /\ (op # "none" /\ ConfigResolves) =>
          ~ OutOfBound(resolve_config(default_config, arg).cfg)
    /\ \A i \in 1..Len(requests) : ~ OutOfBound(requests[i])

\* the formatted sequence of a task has been made
Formatted(t) == tasks[t].pc \in {"resolved", "ready", "awaiting", "done"}

\* C17: _format_messages gives a sequence of the length of messages whose
\* i-th element is exactly {role: messages[i].role.value, content:
\* messages[i].content}, nothing else, and the transport receives from achat
\* and astream this sequence.
C17_FormatKeepsOrderAndPairs ==
    /\ \A t \in Tasks : Formatted(t) =>
          /\ Len(tasks[t].formatted) = Len(tasks[t].messages)
          /\ \A i \in 1..Len(tasks[t].messages) :
                /\ DOMAIN tasks[t].formatted[i] = {"role", "content"}
                /\ tasks[t].formatted[i].role = RoleValue(tasks[t].messages[i].role)
                /\ tasks[t].formatted[i].content = tasks[t].messages[i].content
    /\ \A i \in 1..Len(wire) :
          wire[i].messages = format_messages(tasks[wire[i].task].messages)

C17_Witness ==
    /\ tasks["t1"].op = "achat"
    /\ tasks["t1"].messages = <<SystemS, UserU>>
    /\ tasks["t2"].op = "astream"
    /\ tasks["t2"].messages = <<AssistantU, AssistantU>>
    /\ Len(wire) = 2
    /\ wire[2].task = "t1"
    /\ wire[2].messages = <<[role |-> "system", content |-> "S"],
                            [role |-> "user", content |-> "U"]>>
    /\ wire[1].messages = <<[role |-> "assistant", content |-> "U"],
                            [role |-> "assistant", content |-> "U"]>>

\* the keyword arguments the call of task t resolves to, from its own
\* config argument and the client default
OwnParams(t) ==
    LET p == to_api_params(resolve_config(default_config, tasks[t].arg).cfg, FALSE)
    IN  IF tasks[t].op = "astream" THEN Update(p, [stream |-> TRUE]) ELSE p

\* C20: in every interleaving of the calls of two tasks, each request the
\* transport receives has the parameters and the messages resolved from the
\* arguments of the call that made it and from the client default, and the
\* client default is never changed by a call.
C20_CallsShareNothing ==
    /\ [](\A i \in 1..Len(wire) :
            /\ resolve_config(default_config, tasks[wire[i].task].arg).err = "none"
            /\ wire[i].params = OwnParams(wire[i].task)
            /\ wire[i].messages = format_messages(tasks[wire[i].task].messages))
    /\ [][default_config' = default_config]_vars

C20_Witness ==
    /\ default_config = NewLLMConfig(EmptyDict).cfg
    /\ tasks["t1"].op = "astream"
    /\ tasks["t1"].arg = [kind |-> "dict", d |-> [stream |-> FALSE, foo |-> 123]]
    /\ tasks["t2"].op = "achat"
    /\ tasks["t2"].arg = [kind |-> "dict", d |-> [temperature |-> 9]]
    /\ tasks["t2"].messages # tasks["t1"].messages
    /\ Len(wire) = 2
    /\ wire[1].task = "t1"
    /\ wire[1].params.stream = TRUE
    /\ wire[1].params.temperature = 7
    /\ wire[2].task = "t2"
    /\ wire[2].params.stream = FALSE
    /\ wire[2].params.temperature = 9

----------------------------------------------------------------------------
(* The claims about achat's result, retry machine and round trips (C21-C27) *)

\* C21: when the transport returns a response, achat returns an LLMResponse
\* with role assistant, the first choice's content ("" when it is None), and
\* token_usage with exactly the keys input, output, total holding the
\* provider's prompt, completion and total counts, or 0, 0, 0 when the
\* provider reports no usage; the counts are non-negative.
C21_ResponseNormalised ==
    (op = "achat" /\ pc = "done") =>
        /\ result.role = "assistant"
        /\ result.content = IF api_response.content = None THEN ""
                            ELSE api_response.content[1]
        /\ DOMAIN result.token_usage = {"input", "output", "total"}
        /\ IF api_response.usage = None
           THEN \A k \in DOMAIN result.token_usage : result.token_usage[k] = 0
           ELSE /\ result.token_usage.input = api_response.usage[1].prompt_tokens
                /\ result.token_usage.output = api_response.usage[1].completion_tokens
                /\ result.token_usage.total = api_response.usage[1].total_tokens
        /\ \A k \in DOMAIN result.token_usage : result.token_usage[k] >= 0

C21_Witness ==
    /\ op = "achat"
    /\ pc = "done"
    /\ api_response.content = None
    /\ api_response.usage = None
    /\ result = [content |-> "", role |-> "assistant",
                 token_usage |-> [input |-> 0, output |-> 0, total |-> 0]]

\* C22: Message(...) without role or without content fails; an assignment to
\* a field of an existing Message fails with an error and leaves every field
\* as it was; a message formatted again gives the same wire pair.
C22_MessageNeverReassigned ==
    /\ []((mop = "construct" /\ ~ (RequiredFields \subseteq DOMAIN mkwargs))
            => (merr = "ValidationError" /\ mmsg = NoMessage))
    /\ [](\A i \in 1..Len(mpairs) : mpairs[i] = mpairs[1])
    /\ [][mop' = "setattr" => (merr' # "none" /\ mmsg' = mmsg)]_vars

C22_Witness ==
    /\ mop = "format"
    /\ merr = "ValidationError"
    /\ "flag" \in DOMAIN mmsg.metadata
    /\ Len(mpairs) = 2
    /\ mpairs[1] = [role |-> "user", content |-> "U"]
    /\ mpairs[2] = [role |-> "user", content |-> "U"]

\* C23: a call of achat ends in done or failed and invokes the transport at
\* most 3 times on the way; there is no 4th attempt, and a backoff is made
\* only after a transient error of the transport, with fewer than 3 attempts
\* made.
C23_AchatTerminatesWithinBound ==
    /\ [](op = "achat" =>
            /\ invocations <= StopAfterAttempt
            /\ attempt_number <= StopAfterAttempt
            /\ Len(waits) = attempt_number - 1
            /\ waits # <<>> => \A i \in 1..Len(waits) : Outcome(script, i) \in Transient)
    /\ (op = "achat" /\ pc = "attempt") ~> (op = "achat" /\ Finished)

C23_Witness ==
    /\ op = "achat"
    /\ pc = "failed"
    /\ script[1] = "APIError"
    /\ invocations = 1
    /\ attempt_number = 1
    /\ waits = <<>>

\* C24 as stated: the wait after the k-th failed attempt is
\* min(10, max(4, 2^(k-1))), lies in [4, 10], does not decrease, starts at
\* the floor, and doubles from one attempt to the next until capped.
C24_WaitDoublesFromFloor ==
    wpolicy = CodePolicy =>
        \A k \in 1..Len(wwaits) :
            /\ wwaits[k] = Min(WaitMax, Max(WaitMin, 2 ^ (k - 1)))
            /\ wwaits[k] >= WaitMin /\ wwaits[k] <= WaitMax
            /\ k = 1 => wwaits[k] = WaitMin
            /\ k > 1 => wwaits[k] >= wwaits[k - 1]
            /\ k > 1 => wwaits[k] = Min(WaitMax, 2 * wwaits[k - 1])

\* C24, amended: the wait after the k-th failed attempt is
\* min(10, max(4, 2^(k-1))), lies in [4, 10], does not decrease and starts at
\* the floor; it stays at the floor while 2^(k-1) is below it, and doubles,
\* capped at the ceiling, from then on.
C24_WaitFloorThenDoubles ==
    wpolicy = CodePolicy =>
        \A k \in 1..Len(wwaits) :
            /\ wwaits[k] = Min(WaitMax, Max(WaitMin, 2 ^ (k - 1)))
            /\ wwaits[k] >= WaitMin /\ wwaits[k] <= WaitMax
            /\ k = 1 => wwaits[k] = WaitMin
            /\ k > 1 => wwaits[k] >= wwaits[k - 1]
            /\ (k > 1 /\ 2 ^ (k - 1) <= WaitMin) => wwaits[k] = WaitMin
            /\ (k > 1 /\ 2 ^ (k - 1) > WaitMin) =>
                  wwaits[k] = Min(WaitMax, 2 * wwaits[k - 1])

C24_Witness ==
    /\ wpolicy = CodePolicy
    /\ Len(wwaits) >= 5
    /\ wwaits[1] = 4
    /\ wwaits[2] = 4
    /\ wwaits[3] = 4
    /\ wwaits[4] = 8
    /\ wwaits[5] = 10

\* a step of a call of achat or astream, from the call to the return
CallStep == op # "none" \/ op' # "none"

\* C25: no step of an achat or astream call, succeeding or failing, changes a
\* field of the client's default_config, and none changes the config argument
\* of the call: astream's forcing of stream writes to the call's own dict.
C25_CallsLeaveConfigsAlone ==
    [][CallStep =>
          /\ default_config' = default_config
          /\ (op # "none" /\ op' # "none") => arg' = arg]_vars

C25_Witness ==
    /\ op = "astream"
    /\ pc = "done"
    /\ arg.kind = "config"
    /\ arg.d.stream = FALSE
    /\ default_config.stream = FALSE
    /\ Len(requests) = 1
    /\ requests[1].stream = TRUE
    /\ yielded # <<>>

\* C26: every request of achat is exactly to_api_params() of the resolved
\* config, with the stream flag the config resolved to: achat does not force
\* stream to FALSE.
C26_AchatSendsResolvedStream ==
    (op = "achat" /\ ConfigResolves) =>
        \A i \in 1..Len(requests) :
            LET cfg == resolve_config(default_config, arg).cfg
            IN  /\ requests[i] = to_api_params(cfg, FALSE)
                /\ "stream" \in DOMAIN requests[i]
                /\ requests[i].stream = cfg.stream
                /\ requests[i].temperature = cfg.temperature
                /\ requests[i].max_tokens = cfg.max_tokens

C26_Witness ==
    /\ op = "achat"
    /\ pc = "done"
    /\ arg = [kind |-> "dict", d |-> [temperature |-> 9]]
    /\ default_config.stream = TRUE
    /\ Len(requests) = 1
    /\ requests[1].stream = TRUE
    /\ requests[1].temperature = 9

\* C27: for a valid config c, from_dict(c.to_api_params()) succeeds, drops
\* no key and equals c in every public field; and c.merge_with(o) merged
\* with o again equals c.merge_with(o).
C27_RoundTripAndIdempotence ==
    /\ [][RoundTrip =>
            /\ cagain'.round_trip.err = "none"
            /\ cagain'.round_trip.warned = {}
            /\ \A k \in PublicFields : cagain'.round_trip.cfg[k] = cres.cfg[k]]_vars
    /\ [][MergeAgain =>
            /\ cagain'.merge_again.err = "none"
            /\ cagain'.merge_again.cfg = cres.cfg]_vars

C27_Witness ==
    /\ cop = "merge_with"
    /\ ~ cmutated
    /\ cdata = [kind |-> "dict", d |-> [temperature |-> 20, foo |-> 123]]
    /\ cbase.stream = TRUE
    /\ cbase.seed = Some(42)
    /\ cagain.round_trip.err = "none"
    /\ cagain.round_trip.cfg = cres.cfg
    /\ cagain.merge_again.err = "none"
    /\ cagain.merge_again.cfg = cres.cfg
    /\ cres.cfg.temperature = 20
    /\ cres.cfg.stream = TRUE

====
